---- MODULE Spec2Model ----
(***************************************************************************)
(* doctool: reads the File Information Block (FIB) of a Word binary        *)
(* document held in an OLE compound file, picks the table stream the FIB   *)
(* names, and scans the seven field plexes (PLCFLD) the FIB points at.     *)
(*                                                                         *)
(* Two specifications:                                                     *)
(*   Spec      main(): the run over the command-line paths, process() for  *)
(*             each of them, step by step.                                 *)
(*   SpecScan  processField() applied to one region drawn from a bounded   *)
(*             set of byte sequences.                                      *)
(*                                                                         *)
(* Byte sequences are TLA+ sequences; Go's 0-based index i is At(b, i).    *)
(* uint32 values are records [hi, lo] of two 16-bit limbs, so that the     *)
(* 32-bit wrap of the source's additions is computed exactly.  int is the  *)
(* 64-bit int of the usual builds: int(x) of a uint32 x is x itself.       *)
(***************************************************************************)
EXTENDS Integers, Sequences, FiniteSets, TLC

VARIABLES
    nins,        \* len(ins): the number of positional arguments
    idx,         \* main: index (1-based) of the path being processed
    pc,          \* position in main/process
    out,         \* lines printed on standard output so far
    exit,        \* exit status of the process; -1 while running
    doc,         \* names of the container's entries, in enumeration order
    pos,         \* number of entries doc.Next() has returned
    table0,      \* process: table0 != nil
    table1,      \* process: table1 != nil
    wordDoc,     \* process: wordDoc != nil
    whichTable,  \* process: UNSET, TAB0 or TAB1
    fib,         \* process: the FIB: bytes read, byte 11, the seven pairs
    table,       \* process: the entry chosen as table stream, or "nil"
    tableBuf,    \* process: the bytes read from the table stream
    readFrom,    \* name of the stream tableBuf was read from, or "nil"
    rno,         \* process: number of the next field region, 1 .. 8
    err,         \* error returned by process, or "nil"
    region,      \* SpecScan: the byte slice given to processField
    scan         \* SpecScan: the result of processField(region)

mainVars == <<nins, idx, pc, out, exit, doc, pos, table0, table1, wordDoc,
              whichTable, fib, table, tableBuf, readFrom, rno, err>>
scanVars == <<region, scan>>
vars == <<mainVars, scanVars>>

(***************************************************************************)
(* Bounds of the model.                                                    *)
(***************************************************************************)
MaxPaths == 2      \* at most this many command-line paths
MaxArbLen == 16    \* arbitrary regions have at most this many bytes
MaxN == 4          \* synthetic plexes have at most this many property pairs

(***************************************************************************)
(* Program constants.                                                      *)
(***************************************************************************)
UNSET == 0
TAB0 == 1
TAB1 == 2
FibLen == 634
FieldBegin == 19   \* 0x13

(***************************************************************************)
(* Bytes and uint32 arithmetic.                                            *)
(***************************************************************************)
At(b, i) == b[i + 1]

\* b[lo:hi] of Go, for 0 <= lo <= hi <= len(b)
Slice(b, lo, hi) == SubSeq(b, lo + 1, hi)

Limb == 256 * 256

U32(h, l) == [hi |-> h, lo |-> l]

\* a + b on uint32: wraps modulo 2^32
Add32(a, b) ==
    LET s == a.lo + b.lo
    IN  [hi |-> (a.hi + b.hi + (s \div Limb)) % Limb, lo |-> s % Limb]

IsZero32(a) == a.hi = 0 /\ a.lo = 0

\* int(a) <= n, for an int n in 0 .. 65535
LeqInt(a, n) == a.hi = 0 /\ a.lo <= n

\* int(a) <= int(b)
Leq32(a, b) == a.hi < b.hi \/ (a.hi = b.hi /\ a.lo <= b.lo)

\* Go's integer division truncates toward zero
GoDiv(a, b) == IF a >= 0 THEN a \div b ELSE -((-a) \div b)

(***************************************************************************)
(* The Field Name Table (fieldnames.go): a name for the field codes it     *)
(* knows, the empty string for every other byte.                           *)
(***************************************************************************)
fieldNames ==
    [c \in 0..255 |->
        CASE c = 3  -> "REF"
          [] c = 13 -> "TOC"
          [] c = 37 -> "PAGEREF"
          [] c = 88 -> "HYPERLINK"
          [] OTHER  -> ""]

\* strings.Join(strs, sep)
RECURSIVE Join(_, _)
Join(strs, sep) ==
    IF Len(strs) = 0 THEN ""
    ELSE IF Len(strs) = 1 THEN strs[1]
    ELSE strs[1] \o sep \o Join(Tail(strs), sep)

(***************************************************************************)
(* processField                                                            *)
(***************************************************************************)
matchField(a, b) == (a % 128) = b

numDataElements(len) == GoDiv(len - 4, 6)

\* a scanner that takes the position markers for 6 bytes wide
ignoreSixByteMarkers(n) == n * 6 + 4

ignore(n) == n * 4 + 4

\* The loop of processField from index i on.  reads collects every index the
\* loop evaluates b[.] at; an index outside the slice is a run-time panic.
RECURSIVE fieldLoop(_, _, _, _, _)
fieldLoop(b, n, i, strs, reads) ==
    IF ~(i < n) THEN [strs |-> strs, reads |-> reads, panic |-> FALSE]
    ELSE
        LET p == ignore(n) + i
        IN  IF p < 0 \/ p >= Len(b)
            THEN [strs |-> strs, reads |-> reads \cup {p}, panic |-> TRUE]
            ELSE IF matchField(At(b, p), FieldBegin)
            THEN IF p + 1 >= Len(b)
                 THEN [strs |-> strs, reads |-> reads \cup {p, p + 1},
                       panic |-> TRUE]
                 ELSE fieldLoop(b, n, i + 2,
                                Append(strs, fieldNames[At(b, p + 1)]),
                                reads \cup {p, p + 1})
            ELSE fieldLoop(b, n, i + 2, strs, reads \cup {p})

processField(b) ==
    LET r == fieldLoop(b, numDataElements(Len(b)), 0, <<>>, {})
    IN  [done |-> TRUE,
         panic |-> r.panic,
         strs |-> r.strs,
         reads |-> r.reads,
         str |-> IF r.panic THEN "" ELSE Join(r.strs, ", ")]

\* fib before wordDoc.Read: n is the number of bytes read into it
NoFib ==
    [n |-> 0, b11 |-> 0,
     rg |-> [k \in 1..7 |-> [o |-> U32(0, 0), l |-> U32(0, 0)]]]

NotScanned ==
    [done |-> FALSE, panic |-> FALSE, strs |-> <<>>, reads |-> {}, str |-> ""]

(***************************************************************************)
(* SpecScan: processField on one region.                                   *)
(***************************************************************************)
\* All byte sequences of length 0 .. n over the byte values S
SeqsUpTo(S, n) == UNION {[1..k -> S] : k \in 0..n}

\* Bytes of the arbitrary regions: a field-begin opcode with the top bit set
\* (0x93) and a byte that is no opcode and a known field code (0x03)
ArbBytes == {147, 3}

ArbRegions == SeqsUpTo(ArbBytes, MaxArbLen)

\* Synthetic plexes: (n+1) 4-byte position markers, every byte the filler f,
\* then n property pairs; the even pair 2k is (0x93, cs[k]), every odd pair is
\* odd = <<opcode, argument>>.
FillerBytes == {0, 19}
ArgBytes == {3, 13, 200}
OddPairs == {<<20, 3>>, <<149, 13>>}

NumEven(n) == (n + 1) \div 2

BuildPlex(n, f, cs, odd) ==
    [j \in 1..(6 * n + 4) |->
        LET q == j - 1 - 4 * (n + 1)
        IN  IF q < 0 THEN f
            ELSE IF (q \div 2) % 2 = 0
                 THEN (IF q % 2 = 0 THEN 147 ELSE cs[(q \div 4)])
                 ELSE odd[(q % 2) + 1]]

SynRegions ==
    {BuildPlex(n, f, cs, odd) :
        <<n, f, cs, odd>> \in
            UNION {{<<m, g, c, o>> :
                      g \in FillerBytes, c \in [0..(NumEven(m) - 1) -> ArgBytes],
                      o \in OddPairs} : m \in 1..MaxN}}

ScanInputs == ArbRegions \cup SynRegions

MainIdle ==
    /\ nins = 0
    /\ idx = 0
    /\ pc = "idle"
    /\ out = <<>>
    /\ exit = -1
    /\ doc = <<>>
    /\ pos = 0
    /\ table0 = FALSE
    /\ table1 = FALSE
    /\ wordDoc = FALSE
    /\ whichTable = UNSET
    /\ fib = NoFib
    /\ table = "nil"
    /\ tableBuf = <<>>
    /\ readFrom = "nil"
    /\ rno = 0
    /\ err = "nil"

ScanInit ==
    /\ MainIdle
    /\ region \in ScanInputs
    /\ scan = NotScanned

\* processField(region) is called and returns (or panics)
ScanRegion ==
    /\ ~scan.done
    /\ scan' = processField(region)
    /\ UNCHANGED <<region, mainVars>>

ScanNext == ScanRegion

SpecScan == ScanInit /\ [][ScanNext]_vars

(***************************************************************************)
(* Spec: main() and process().                                             *)
(***************************************************************************)
ErrNoFields == "No fields"
ErrFibShort == "file information block too short"
ErrTable == "cannot find table stream"

\* the errors of os.Open and mscfb.New (texts of the libraries)
ErrOpen == "open: no such file or directory"
ErrContainer == "mscfb: not a compound file"

ErrPrefix == "Error processing file: "

wrapError(e) == ErrPrefix \o e

\* a resolver that tests bit 0 of the byte
WhichTableBit0(byt) == (byt % 2) + 1

\* whichTable = int(byt>>1&1) + 1
WhichTable(byt) == ((byt \div 2) % 2) + 1

\* a resolver that falls back to the other table stream
selectTableFallback(w, t0, t1) ==
    CASE w = UNSET -> [err |-> wrapError(ErrTable), table |-> "nil"]
      [] w = TAB0 -> IF t0 THEN [err |-> "nil", table |-> "0Table"]
                     ELSE IF t1 THEN [err |-> "nil", table |-> "1Table"]
                     ELSE [err |-> wrapError(ErrTable), table |-> "nil"]
      [] w = TAB1 -> IF t1 THEN [err |-> "nil", table |-> "1Table"]
                     ELSE IF t0 THEN [err |-> "nil", table |-> "0Table"]
                     ELSE [err |-> wrapError(ErrTable), table |-> "nil"]

\* the switch on whichTable after the enumeration
selectTable(w, t0, t1) ==
    CASE w = UNSET -> [err |-> wrapError(ErrTable), table |-> "nil"]
      [] w = TAB0 -> IF ~t0 THEN [err |-> wrapError(ErrTable), table |-> "nil"]
                     ELSE [err |-> "nil", table |-> "0Table"]
      [] w = TAB1 -> IF ~t1 THEN [err |-> wrapError(ErrTable), table |-> "nil"]
                     ELSE [err |-> "nil", table |-> "1Table"]

\* mn+hdr+ftn+com+end+txb+htx on uint32
RECURSIVE sumLengths(_, _)
sumLengths(rg, k) ==
    IF k = 0 THEN U32(0, 0) ELSE Add32(sumLengths(rg, k - 1), rg[k].l)

noFields(rg) == IsZero32(sumLengths(rg, 7))

Labels ==
    <<"Document body", "Header/footer", "Footnote", "Comment", "Endnote",
      "Textbox", "Header/footer textbox">>

\* One of the seven blocks "if mn > 0 { if int(mo+mn) <= len(tableBuf) {...} }":
\* what it prints, or that the slice expression or processField panics.
fieldRegion(buf, o, l) ==
    LET e == Add32(o, l)
    IN  IF IsZero32(l) \/ ~LeqInt(e, Len(buf))
        THEN [panic |-> FALSE, print |-> FALSE, str |-> ""]
        ELSE IF ~Leq32(o, e)
        THEN [panic |-> TRUE, print |-> FALSE, str |-> ""]
        ELSE LET f == processField(Slice(buf, o.lo, e.lo))
             IN  [panic |-> f.panic, print |-> ~f.panic, str |-> f.str]

(***************************************************************************)
(* Inputs of the run.                                                      *)
(***************************************************************************)
StreamNames == {"WordDocument", "0Table", "1Table", "CompObj"}

\* the containers: up to three of the three streams the code looks for and
\* of one stream it ignores, in every order
Containers ==
    UNION {{d \in [1..k -> StreamNames] :
                \A i, j \in 1..k : i # j => d[i] # d[j]} : k \in 0..3}

\* the values of byte 11 of the FIB: bit 1 clear or set, the other bits
\* all clear or all set
FibByte11 == {0, 2, 253, 255}

\* the numbers of bytes wordDoc.Read returns
ReadCounts == {FibLen - 1, FibLen}

High32 == U32(32768, 0)    \* 0x80000000

\* (offset, length) pairs of a field region in the FIB
RegionSpecs ==
    {[o |-> U32(0, 0), l |-> U32(0, 0)],
     [o |-> U32(0, 0), l |-> U32(0, 10)],
     [o |-> U32(0, 6), l |-> U32(0, 10)],
     [o |-> High32, l |-> U32(0, 10)],
     [o |-> High32, l |-> High32]}

\* the regions whose pair may differ from (0, 0)
ActiveRegions == {1, 2}

Fibs ==
    {[n |-> FibLen, b11 |-> b, rg |-> g] :
        b \in FibByte11,
        g \in {h \in [1..7 -> RegionSpecs] :
                  \A k \in (1..7) \ ActiveRegions : IsZero32(h[k].l) /\ IsZero32(h[k].o)}}

\* the table streams: a plex of one pair at bytes [0, 10) naming REF, and in
\* the longer stream a second one at [6, 16) naming TOC
TableLong == <<0, 0, 0, 0, 0, 0, 0, 0, 147, 3, 0, 0, 0, 0, 19, 13>>
TableShort == SubSeq(TableLong, 1, 10)
Tables == {TableLong, TableShort}

PathName(k) == "doc" \o ToString(k)

Line(k, kind, text) == [path |-> k, kind |-> kind, text |-> text]

(***************************************************************************)
(* Actions.                                                                *)
(***************************************************************************)
Locals0 ==
    /\ doc' = <<>>
    /\ pos' = 0
    /\ table0' = FALSE
    /\ table1' = FALSE
    /\ wordDoc' = FALSE
    /\ whichTable' = UNSET
    /\ fib' = NoFib
    /\ table' = "nil"
    /\ tableBuf' = <<>>
    /\ readFrom' = "nil"
    /\ rno' = 0

Init ==
    /\ nins \in 0..MaxPaths
    /\ idx = 0
    /\ pc = "main"
    /\ out = <<>>
    /\ exit = -1
    /\ doc = <<>>
    /\ pos = 0
    /\ table0 = FALSE
    /\ table1 = FALSE
    /\ wordDoc = FALSE
    /\ whichTable = UNSET
    /\ fib = NoFib
    /\ table = "nil"
    /\ tableBuf = <<>>
    /\ readFrom = "nil"
    /\ rno = 0
    /\ err = "nil"
    /\ region = <<>>
    /\ scan = NotScanned

\* main: flag.Parse, flag.Args and the check of len(ins)
Main ==
    /\ pc = "main"
    /\ IF nins < 1
       THEN /\ pc' = "fatal"
            /\ exit' = 1
            /\ idx' = idx
       ELSE /\ pc' = "print"
            /\ exit' = exit
            /\ idx' = 1
    /\ UNCHANGED <<nins, out, doc, pos, table0, table1, wordDoc, whichTable,
                   fib, table, tableBuf, readFrom, rno, err, scanVars>>

\* main: fmt.Println(in)
PrintPath ==
    /\ pc = "print"
    /\ out' = Append(out, Line(idx, "path", PathName(idx)))
    /\ pc' = "open"
    /\ UNCHANGED <<nins, idx, exit, doc, pos, table0, table1, wordDoc,
                   whichTable, fib, table, tableBuf, readFrom, rno, err, scanVars>>

\* process: os.Open and mscfb.New
Open ==
    /\ pc = "open"
    /\ \/ /\ err' = wrapError(ErrOpen)
          /\ pc' = "report"
          /\ doc' = doc
       \/ /\ err' = wrapError(ErrContainer)
          /\ pc' = "report"
          /\ doc' = doc
       \/ /\ doc' \in Containers
          /\ err' = "nil"
          /\ pc' = "next"
    /\ UNCHANGED <<nins, idx, out, exit, pos, table0, table1, wordDoc,
                   whichTable, fib, table, tableBuf, readFrom, rno, scanVars>>

\* process: one iteration of the loop over doc.Next(); a break inside the
\* switch leaves the switch, not the loop
NextEntry ==
    /\ pc = "next"
    /\ pos < Len(doc)
    /\ pos' = pos + 1
    /\ LET entry == doc[pos + 1]
       IN  CASE entry = "0Table" ->
                  /\ table0' = TRUE
                  /\ UNCHANGED <<table1, wordDoc, whichTable, fib, err, pc>>
             [] entry = "1Table" ->
                  /\ table1' = TRUE
                  /\ UNCHANGED <<table0, wordDoc, whichTable, fib, err, pc>>
             [] entry = "WordDocument" ->
                  /\ wordDoc' = TRUE
                  /\ \E i \in ReadCounts, f \in Fibs :
                        IF i < FibLen
                        THEN /\ err' = wrapError(ErrFibShort)
                             /\ pc' = "report"
                             /\ UNCHANGED <<fib, whichTable>>
                        ELSE /\ fib' = f
                             /\ whichTable' = WhichTable(f.b11)
                             /\ UNCHANGED <<err, pc>>
                  /\ UNCHANGED <<table0, table1>>
             [] OTHER -> UNCHANGED <<table0, table1, wordDoc, whichTable, fib,
                                     err, pc>>
    /\ UNCHANGED <<nins, idx, out, exit, doc, table, tableBuf, readFrom, rno,
                   scanVars>>

\* process: the enumeration is over; set the table stream
SelectTable ==
    /\ pc = "next"
    /\ pos = Len(doc)
    /\ LET s == selectTable(whichTable, table0, table1)
       IN  /\ table' = s.table
           /\ err' = s.err
           /\ pc' = IF s.err = "nil" THEN "locate" ELSE "report"
    /\ UNCHANGED <<nins, idx, out, exit, doc, pos, table0, table1, wordDoc,
                   whichTable, fib, tableBuf, readFrom, rno, scanVars>>

\* process: decode the seven pairs and test the sum of the lengths
Locate ==
    /\ pc = "locate"
    /\ IF noFields(fib.rg)
       THEN /\ err' = ErrNoFields
            /\ pc' = "report"
       ELSE /\ err' = err
            /\ pc' = "load"
    /\ UNCHANGED <<nins, idx, out, exit, doc, pos, table0, table1, wordDoc,
                   whichTable, fib, table, tableBuf, readFrom, rno, scanVars>>

\* process: read the whole table stream
Load ==
    /\ pc = "load"
    /\ tableBuf' \in Tables
    /\ readFrom' = table
    /\ rno' = 1
    /\ pc' = "region"
    /\ UNCHANGED <<nins, idx, out, exit, doc, pos, table0, table1, wordDoc,
                   whichTable, fib, table, err, scanVars>>

\* process: the block of field region rno
Region ==
    /\ pc = "region"
    /\ rno <= 7
    /\ LET f == fieldRegion(tableBuf, fib.rg[rno].o, fib.rg[rno].l)
       IN  IF f.panic
           THEN /\ pc' = "panic"
                /\ exit' = 2
                /\ UNCHANGED <<out, rno>>
           ELSE /\ out' = IF f.print
                          THEN Append(out, Line(idx, "region",
                                                Labels[rno] \o " fields: " \o f.str))
                          ELSE out
                /\ rno' = rno + 1
                /\ pc' = IF rno = 7 THEN "report" ELSE "region"
                /\ exit' = exit
    /\ UNCHANGED <<nins, idx, doc, pos, table0, table1, wordDoc, whichTable,
                   fib, table, tableBuf, readFrom, err, scanVars>>

\* main: process has returned; print its error, go to the next path or exit
Report ==
    /\ pc = "report"
    /\ out' = IF err # "nil" THEN Append(out, Line(idx, "error", err)) ELSE out
    /\ err' = "nil"
    /\ Locals0
    /\ IF idx < nins
       THEN /\ idx' = idx + 1
            /\ pc' = "print"
            /\ exit' = exit
       ELSE /\ idx' = idx
            /\ pc' = "exit"
            /\ exit' = 0
    /\ UNCHANGED <<nins, scanVars>>

Next ==
    \/ Main
    \/ PrintPath
    \/ Open
    \/ NextEntry
    \/ SelectTable
    \/ Locate
    \/ Load
    \/ Region
    \/ Report

Spec == Init /\ [][Next]_vars

(***************************************************************************)
(* Properties.                                                             *)
(***************************************************************************)
Range(q) == {q[i] : i \in 1..Len(q)}

HasPrefix(str, pre) == Len(str) >= Len(pre) /\ SubSeq(str, 1, Len(pre)) = pre

\* the lines printed for path k
LinesOf(k, kind) == {i \in 1..Len(out) : out[i].path = k /\ out[i].kind = kind}

\* the line of region j of the current path has been printed
RegionPrinted(j) ==
    \E i \in LinesOf(idx, "region") : HasPrefix(out[i].text, Labels[j] \o " fields: ")

\* o + l <= n in unbounded arithmetic, for n in 0 .. 65535
SumWithin(o, l, n) == o.hi = 0 /\ l.hi = 0 /\ o.lo + l.lo <= n

AllLengthsZero(rg) == \A k \in 1..7 : IsZero32(rg[k].l)

\* the table stream bit 1 of byte 11 of the FIB names
Selected == IF (fib.b11 \div 2) % 2 = 1 THEN "1Table" ELSE "0Table"

Terminated == pc \in {"exit", "fatal", "panic"}

\* C1: a field region with length > 0 is scanned and printed only if
\* offset + length, taken without wrapping, is within the loaded table
\* stream; every other region is skipped without the run aborting, and the
\* regions after it are still handled.
C1_RegionInBoundsOrSkipped ==
    /\ pc # "panic"
    /\ readFrom # "nil" =>
          \A j \in 1..(rno - 1) :
              RegionPrinted(j) <=>
                  /\ ~IsZero32(fib.rg[j].l)
                  /\ SumWithin(fib.rg[j].o, fib.rg[j].l, Len(tableBuf))

AfterSelect == pc \in {"locate", "load", "region", "report", "panic"}

\* C2: once the FIB is decoded and the enumeration is over, if the table
\* stream the selector names is absent from the container, process fails
\* with the table-stream error, and no table stream is loaded and no region
\* printed, whatever other streams the container holds.
C2_SelectedTableMissing ==
    (AfterSelect /\ fib.n = FibLen /\ Selected \notin Range(doc)) =>
        /\ pc = "report"
        /\ err = wrapError(ErrTable)
        /\ table = "nil"
        /\ readFrom = "nil"
        /\ LinesOf(idx, "region") = {}

C2_Witness ==
    /\ pc = "report"
    /\ err = wrapError(ErrTable)
    /\ fib.n = FibLen
    /\ Selected = "1Table"
    /\ "1Table" \notin Range(doc)
    /\ "0Table" \in Range(doc)
    /\ ~AllLengthsZero(fib.rg)

\* C3: with the FIB read in full and both table streams in the container,
\* the stream chosen, and the stream whose bytes are loaded, is the one bit 1
\* of FIB byte 11 names, in every enumeration order and for every value of
\* the other bits of the byte.
C3_SelectorHonoured ==
    (fib.n = FibLen /\ {"0Table", "1Table"} \subseteq Range(doc)) =>
        /\ table # "nil" => table = Selected
        /\ readFrom # "nil" => readFrom = Selected
        /\ AfterSelect => table = Selected

C3_Witness ==
    /\ fib.n = FibLen
    /\ fib.b11 = 253
    /\ doc = <<"1Table", "0Table", "WordDocument">>
    /\ readFrom = "0Table"
    /\ pc = "report"
    /\ rno = 8
    /\ LinesOf(idx, "region") # {}

IsNoFieldData == pc = "report" /\ err \in {ErrNoFields, wrapError(ErrNoFields)}

\* C4: with a valid FIB and the selected table stream present, process fails
\* with the no-fields error exactly when all seven lengths are zero; then no
\* table stream is loaded, and otherwise loading and scanning go on.
C4_NoFieldDataIffAllZero ==
    (table # "nil" /\ AfterSelect /\ pc # "locate") =>
        /\ IsNoFieldData <=> AllLengthsZero(fib.rg)
        /\ IsNoFieldData => readFrom = "nil"

\* C5: a container that opens and holds no WordDocument stream is reported
\* with an error that differs from the report of a missing table stream.
C5_MissingMainStreamDistinct ==
    (pc = "report" /\ pos = Len(doc) /\ "WordDocument" \notin Range(doc)
        /\ err \notin {wrapError(ErrOpen), wrapError(ErrContainer)}) =>
        /\ err # "nil"
        /\ err # wrapError(ErrTable)

\* C6: with at least one path, the lines of the paths appear in argument
\* order, each path's lines led by its one path line, and when the run has
\* ended every path has been processed and the exit status is zero.
C6_AllPathsThenExitZero ==
    /\ \A i, j \in 1..Len(out) : i < j => out[i].path <= out[j].path
    /\ \A i \in 1..Len(out) :
          out[i].kind = "path" <=> (i = 1 \/ out[i - 1].path # out[i].path)
    /\ (nins >= 1 /\ Terminated) =>
          /\ exit = 0
          /\ \A k \in 1..nins : Cardinality(LinesOf(k, "path")) = 1

\* C10: every error line starts with the prefix wrapError puts before the
\* error, a path has at most one error line, and a path with an error line
\* has no region line.
C10_ErrorsWrappedOncePerPath ==
    \A i \in 1..Len(out) :
        out[i].kind = "error" =>
            /\ HasPrefix(out[i].text, ErrPrefix)
            /\ Cardinality(LinesOf(out[i].path, "error")) = 1
            /\ LinesOf(out[i].path, "region") = {}

(***************************************************************************)
(* Properties of processField, under SpecScan.                             *)
(***************************************************************************)
PairCount(b) == (Len(b) - 4) \div 6

\* the opcode and the argument of property pair p of a plex
Opcode(b, p) == At(b, 4 * (PairCount(b) + 1) + 2 * p)
Argument(b, p) == At(b, 4 * (PairCount(b) + 1) + 2 * p + 1)

\* (n+1) markers and n >= 1 pairs, the even pairs field-begin marks with the
\* top bit set, the odd pairs no field-begin marks
IsSyntheticPlex(b) ==
    /\ Len(b) >= 10
    /\ (Len(b) - 4) % 6 = 0
    /\ \A p \in 0..(PairCount(b) - 1) :
          IF p % 2 = 0 THEN Opcode(b, p) = 147 ELSE Opcode(b, p) % 128 # 19

\* the names of the arguments of the even pairs 2k < n, in order
ExpectedNames(b) ==
    [k \in 1..((PairCount(b) + 1) \div 2) |-> fieldNames[Argument(b, 2 * (k - 1))]]

\* C7: on a synthetic plex the scanner returns the names of the arguments of
\* all even pairs 2k < n, the name of pair 2k at position k.
C7_RoundTrip ==
    (scan.done /\ IsSyntheticPlex(region)) =>
        /\ ~scan.panic
        /\ scan.strs = ExpectedNames(region)
        /\ scan.str = Join(ExpectedNames(region), ", ")

WellFormedLength(len) == len - 4 >= 0 /\ (len - 4) % 6 = 0

\* C8: on a region of length L >= 1 with (L - 4) no non-negative multiple of
\* 6 the scanner returns no name.
C8_MalformedLengthEmpty ==
    (scan.done /\ Len(region) >= 1 /\ ~WellFormedLength(Len(region))) =>
        /\ ~scan.panic
        /\ scan.strs = <<>>
        /\ scan.str = ""

\* C9: on a region of length L >= 1 every index the scanner reads is in
\* 0 .. L-1, so that it never panics.
C9_ReadsInRange ==
    (scan.done /\ Len(region) >= 1) =>
        /\ ~scan.panic
        /\ \A i \in scan.reads : 0 <= i /\ i < Len(region)

C9_Witness ==
    /\ scan.done
    /\ Len(region) = 11
    /\ ~WellFormedLength(Len(region))
    /\ scan.reads = {8, 9}

====
